---------------------------- MODULE Spec2Model ----------------------------
(***************************************************************************)
(* A model of deploy.js, the build pipeline of ghost-blog-static-builder.  *)
(*                                                                         *)
(* src/deploy.js holds two revisions of the script: lines 1-200 (rev 1,    *)
(* "Production Build") and lines 201-401 (rev 2, "ROBUST AUTONOMOUS        *)
(* build").  The variable rev says which one runs.                         *)
(*                                                                         *)
(* Text (file contents, URLs, file paths) is a sequence of tokens.  A      *)
(* token is either one character ("/", ".", "?", "@", "=", "%", ",", a     *)
(* digit, ...) or an atom: a run of characters that no pattern of the      *)
(* script can match part of ("localhost", "index", "<script", ...).  Every *)
(* character the script's regular expressions and splits look at is a      *)
(* token of its own, so the patterns are matched as the script matches     *)
(* them.                                                                   *)
(***************************************************************************)
EXTENDS Integers, Sequences, FiniteSets, TLC

---------------------------------------------------------------------------
(* Tokens *)

\* One-character tokens: what the regex wildcard "." can match (no "\n").
SingleChars ==
    { "/", ".", "?", "@", "=", "%", ",", " ", "#", ">", "'", "\"", "X",
      "0", "2", "5", "P", "R", "U", "~0", "~2", "~5" }

\* \s of the script's regular expressions
Whitespace == { " ", "\n" }

\* the quote characters of ["']
Quotes == { "\"", "'" }

---------------------------------------------------------------------------
(* Sequence helpers *)

Prefix(s, n) == SubSeq(s, 1, n)

Suffix(s, n) == SubSeq(s, n, Len(s))

Last(s) == s[Len(s)]

\* the tokens of s from position i on start with the tokens of p
StartsAt(s, i, p) ==
    /\ i + Len(p) - 1 <= Len(s)
    /\ \A k \in 1..Len(p) : s[i + k - 1] = p[k]

\* String.prototype.includes
Includes(s, p) == \E i \in 1..(Len(s) + 1) : StartsAt(s, i, p)

\* the least position of s holding a token of set T, or Len(s) + 1
FirstIn(s, T) ==
    IF \E i \in 1..Len(s) : s[i] \in T
    THEN CHOOSE i \in 1..Len(s) : s[i] \in T /\ \A j \in 1..(i - 1) : s[j] \notin T
    ELSE Len(s) + 1

\* s.split(/[T]/)[0]: the part of s before its first token of T
BeforeFirst(s, T) == Prefix(s, FirstIn(s, T) - 1)

RECURSIVE SeqToSet(_)
SeqToSet(s) == IF s = <<>> THEN {} ELSE {Head(s)} \cup SeqToSet(Tail(s))

---------------------------------------------------------------------------
(* Regular expressions of the content rewrite *)

\* One token of a pattern made by new RegExp(text): the text is not escaped,
\* so "." is the wildcard (any one character but a line break); every other
\* token of an origin matches itself.
PatTokenMatches(p, t) == IF p = "." THEN t \in SingleChars ELSE p = t

RegexMatchesAt(s, i, pat) ==
    /\ i + Len(pat) - 1 <= Len(s)
    /\ \A k \in 1..Len(pat) : PatTokenMatches(pat[k], s[i + k - 1])

\* contents.replace(new RegExp(pat, 'g'), to): leftmost matches, left to right,
\* the scan resuming after each match
RECURSIVE RegexReplaceAll(_, _, _)
RegexReplaceAll(s, pat, to) ==
    IF s = <<>> \/ pat = <<>> THEN s
    ELSE IF RegexMatchesAt(s, 1, pat)
         THEN to \o RegexReplaceAll(Suffix(s, Len(pat) + 1), pat, to)
         ELSE <<Head(s)>> \o RegexReplaceAll(Tail(s), pat, to)

\* the extensions of the "Remove cache busters" pattern of rev 1
AssetExts1 == { ".css", ".js", ".png", ".jpg", ".svg", ".webp" }

\* the extensions of the "Clean Versions" pattern of rev 2
AssetExts2 == { ".css", ".js", ".png", ".jpg", ".jpeg", ".gif", ".svg", ".webp" }

\* tokens that begin with a character of ["'\s>]: where [^"'\s>]* stops
BusterStop == Quotes \cup Whitespace \cup { ">", "></script>" }

\* replace(/((?:\.css|...))([?@][^"'\s>]*)/g, '$1')
RECURSIVE StripCacheBusters(_, _)
StripCacheBusters(s, exts) ==
    IF s = <<>> THEN s
    ELSE IF Len(s) >= 2 /\ s[1] \in exts /\ s[2] \in { "?", "@" }
         THEN LET rest == Suffix(s, 3)
                  stop == FirstIn(rest, BusterStop)
              IN  <<s[1]>> \o StripCacheBusters(Suffix(rest, stop), exts)
         ELSE <<Head(s)>> \o StripCacheBusters(Tail(s), exts)

\* the end of the match of /<script.*ghost-portal.*><\/script>/ that starts
\* at position i of s, or 0: "." does not cross a line break and both .* are
\* greedy, so the match runs to the last "></script>" of the line that has a
\* "ghost-portal" between
PortalMatchEnd(s, i) ==
    LET eol  == i + FirstIn(Suffix(s, i), { "\n" }) - 2
        ends == { j \in (i + 1)..eol :
                    /\ s[j] = "></script>"
                    /\ \E k \in (i + 1)..(j - 1) : s[k] = "ghost-portal" }
    IN  IF s[i] = "<script" /\ ends # {}
        THEN CHOOSE j \in ends : \A e \in ends : e <= j
        ELSE 0

\* replace(/<script.*ghost-portal.*><\/script>/g, '')
RECURSIVE RemovePortal(_)
RemovePortal(s) ==
    IF s = <<>> THEN s
    ELSE LET e == PortalMatchEnd(s, 1)
         IN  IF e > 0 THEN RemovePortal(Suffix(s, e + 1))
             ELSE <<Head(s)>> \o RemovePortal(Tail(s))

\* tokens that hold the character "?": where [^?]* stops
QTokens == { "?", "<?xml", "<?xml-stylesheet" }

\* replace(/<\?xml-stylesheet[^?]*\?>/g, '')
RECURSIVE RemoveStylesheet(_)
RemoveStylesheet(s) ==
    IF s = <<>> THEN s
    ELSE LET rest == Tail(s)
             q    == FirstIn(rest, QTokens)
         IN  IF /\ Head(s) = "<?xml-stylesheet"
                /\ q + 1 <= Len(rest)
                /\ rest[q] = "?"
                /\ rest[q + 1] = ">"
             THEN RemoveStylesheet(Suffix(rest, q + 2))
             ELSE <<Head(s)>> \o RemoveStylesheet(rest)

\* url.replace(/^https?:\/\//, '')
StripScheme(url) ==
    IF /\ Len(url) >= 3
       /\ url[1] \in { "http:", "https:" }
       /\ url[2] = "/"
       /\ url[3] = "/"
    THEN Suffix(url, 4)
    ELSE url

\* rev 1, "5. Content Replacements": the from/to lists of the html pass,
\* applied in order to the contents of one file
RewriteHtml1(s, ghostUrl, deployUrl) ==
    RemovePortal(
        StripCacheBusters(RegexReplaceAll(s, ghostUrl, deployUrl), AssetExts1))

\* rev 1, "5a. Fix sitemap URLs": the from/to lists of the xml pass
RewriteXml1(s, ghostUrl, deployUrl) ==
    RemoveStylesheet(
        RegexReplaceAll(RegexReplaceAll(s, ghostUrl, deployUrl),
                        <<"/", "/">> \o StripScheme(ghostUrl),
                        <<"/", "/">> \o StripScheme(deployUrl)))

\* rev 2, "URL Rewrite", "Clean Versions", "Remove Portal": three passes over
\* the html files
RewriteHtml2(s, ghostUrl, deployUrl) ==
    RemovePortal(
        StripCacheBusters(RegexReplaceAll(s, ghostUrl, deployUrl), AssetExts2))

---------------------------------------------------------------------------
(* The asset scraper: extraction and normalization of image references *)

\* the attribute names of /(?:src|srcset)=["']([^"']+)["']/g
UrlAttrs == { "src=", "srcset=" }

\* content.matchAll(urlPattern) (rev 1) and the attributeRegex.exec loop
\* (rev 2): the values match[1], in the order of the matches
RECURSIVE AttrValues(_)
AttrValues(s) ==
    IF Len(s) < 4 THEN <<>>
    ELSE LET rest == Suffix(s, 3)
             q    == FirstIn(rest, Quotes)
         IN  IF /\ s[1] \in UrlAttrs
                /\ s[2] \in Quotes
                /\ q >= 2
                /\ q <= Len(rest)
             THEN <<Prefix(rest, q - 1)>> \o AttrValues(Suffix(rest, q + 1))
             ELSE AttrValues(Tail(s))

\* String.prototype.split(sep) for a one-character separator
RECURSIVE Split(_, _)
Split(s, sep) ==
    LET i == FirstIn(s, {sep})
    IN  IF i > Len(s) THEN <<s>>
        ELSE <<Prefix(s, i - 1)>> \o Split(Suffix(s, i + 1), sep)

RECURSIVE TrimLeft(_)
TrimLeft(s) ==
    IF s # <<>> /\ Head(s) \in Whitespace THEN TrimLeft(Tail(s)) ELSE s

RECURSIVE TrimRight(_)
TrimRight(s) ==
    IF s # <<>> /\ Last(s) \in Whitespace
    THEN TrimRight(Prefix(s, Len(s) - 1))
    ELSE s

\* String.prototype.trim
Trim(s) == TrimRight(TrimLeft(s))

\* mutant of CandidateUrl: the descriptor of the candidate is kept
CandidateUrlWhole(candidate) == Trim(candidate)

\* candidate.trim().split(/\s+/)[0]: the URL of one srcset candidate
CandidateUrl(candidate) == BeforeFirst(Trim(candidate), Whitespace)

\* '/content/images/'
ImagesPrefix == <<"/", "content", "/", "images", "/">>

\* the two-digit escapes over the hex digits of the model and the character
\* each one stands for ("~0", "~2", "~5": the control characters 0, 2, 5)
HexDigits == { "0", "2", "5" }

HexChar(a, b) ==
    CASE a = "2" /\ b = "0" -> " "
      [] a = "2" /\ b = "2" -> "\""
      [] a = "2" /\ b = "5" -> "%"
      [] a = "5" /\ b = "0" -> "P"
      [] a = "5" /\ b = "2" -> "R"
      [] a = "5" /\ b = "5" -> "U"
      [] a = "0" /\ b = "0" -> "~0"
      [] a = "0" /\ b = "2" -> "~2"
      [] a = "0" /\ b = "5" -> "~5"

\* decodeURIComponent throws URIError: a "%" not followed by two hex digits
RECURSIVE Malformed(_)
Malformed(s) ==
    IF s = <<>> THEN FALSE
    ELSE IF Head(s) = "%"
         THEN IF Len(s) >= 3 /\ s[2] \in HexDigits /\ s[3] \in HexDigits
              THEN Malformed(Suffix(s, 4))
              ELSE TRUE
         ELSE Malformed(Tail(s))

\* decodeURIComponent of a string it does not throw on: every escape is
\* decoded once
RECURSIVE DecodeURIComponent(_)
DecodeURIComponent(s) ==
    IF s = <<>> THEN s
    ELSE IF Head(s) = "%" /\ Len(s) >= 3
         THEN <<HexChar(s[2], s[3])>> \o DecodeURIComponent(Suffix(s, 4))
         ELSE <<Head(s)>> \o DecodeURIComponent(Tail(s))

\* rev 1: url.split(/[?#]/)[0]
StripQuery1(url) == BeforeFirst(url, { "?", "#" })

\* rev 2: cleanUrl.split('?')[0]
StripQuery2(url) == BeforeFirst(url, { "?" })

StripQuery(r, url) == IF r = 1 THEN StripQuery1(url) ELSE StripQuery2(url)

\* the candidate URLs of one attribute value that look like Ghost images, in
\* order, before the query is stripped
ImageCandidates(value) ==
    LET cands == Split(value, ",")
    IN  SelectSeq([i \in 1..Len(cands) |-> CandidateUrl(cands[i])],
                  LAMBDA u : Includes(u, ImagesPrefix))

\* rawPath.replace(/^https?:\/\/[^\/]+/, '')
StripHost(url) ==
    LET rest == Suffix(url, 4)
        sl   == FirstIn(rest, { "/" })
    IN  IF /\ Len(url) >= 4
           /\ url[1] \in { "http:", "https:" }
           /\ url[2] = "/"
           /\ url[3] = "/"
           /\ sl >= 2
        THEN Suffix(rest, sl)
        ELSE url

---------------------------------------------------------------------------
(* The file system: files is a function from the absolute path of each     *)
(* regular file to its contents, dirs the set of the directories.          *)

Root == <<"/">>

\* path.dirname
Dirname(p) ==
    LET sl == { i \in 1..Len(p) : p[i] = "/" }
        k  == CHOOSE i \in sl : \A j \in sl : j <= i
    IN  IF sl = {} THEN <<".">>
        ELSE IF k = 1 THEN Root
        ELSE Prefix(p, k - 1)

\* path p lies inside directory d
Under(p, d) ==
    IF d = Root THEN Len(p) > 1 /\ p[1] = "/"
    ELSE Len(p) > Len(d) + 1 /\ Prefix(p, Len(d)) = d /\ p[Len(d) + 1] = "/"

\* directory d and the directories above it
RECURSIVE WithParents(_)
WithParents(d) ==
    IF d = Root \/ d = <<".">> THEN {Root} ELSE {d} \cup WithParents(Dirname(d))

\* a path with its trailing slashes dropped
RECURSIVE NoTrailingSlash(_)
NoTrailingSlash(p) ==
    IF Len(p) > 1 /\ Last(p) = "/"
    THEN NoTrailingSlash(Prefix(p, Len(p) - 1))
    ELSE p

\* path.join and path.normalize on the slashes: a run of slashes is one
RECURSIVE CollapseSlashes(_)
CollapseSlashes(p) ==
    IF Len(p) < 2 THEN p
    ELSE IF p[1] = "/" /\ p[2] = "/" THEN CollapseSlashes(Tail(p))
    ELSE <<Head(p)>> \o CollapseSlashes(Tail(p))

\* path.join(a, b)
PathJoin(a, b) == CollapseSlashes(a \o <<"/">> \o b)

\* path.normalize of an absolute path on its ".." segments: each one takes
\* the segment before it away; the parent of the root is the root
RECURSIVE ResolveDots(_)
ResolveDots(p) ==
    IF \A i \in 1..Len(p) : p[i] # ".." THEN p
    ELSE LET i    == FirstIn(p, { ".." })
             back == { j \in 1..(i - 2) : p[j] = "/" }
             keep == IF back = {} THEN 1
                     ELSE CHOOSE j \in back : \A k \in back : k <= j
         IN  ResolveDots(NoTrailingSlash(Prefix(p, keep) \o Suffix(p, i + 2)))

\* fs.existsSync(p) in file system [f, d]: a path with a trailing slash
\* names a directory only
ExistsIn(f, d, p) ==
    \/ p \in DOMAIN f
    \/ NoTrailingSlash(p) \in d

\* the function f without the arguments in set P
Without(f, P) == [q \in (DOMAIN f) \ P |-> f[q]]

\* the function f with f[p] = c
With(f, p, c) == [q \in (DOMAIN f) \cup {p} |-> IF q = p THEN c ELSE f[q]]

\* the collation of directory entries: the tokens of file names in ascending
\* order (readdirSync lists a directory in the order of its names)
TokenOrder ==
    << " ", "%", ".", ".css", ".gif", ".gitignore", ".html", ".js", ".nojekyll",
       ".png", ".txt", ".xml", "0", "2", "2x", "404", "5", "=", "?", "@", "CNAME",
       "a", "about", "anim", "app", "b", "content", "dist", "feed", "h", "hero", "images", "index",
       "logo",
       "old", "pic", "robots", "rss", "sitemap-authors", "sitemap-pages",
       "sitemap-posts", "sitemap-tags", "sitemap", "srv", "style", "tag",
       "u", "v", "w600" >>

Rank(t) ==
    IF \E i \in 1..Len(TokenOrder) : TokenOrder[i] = t
    THEN CHOOSE i \in 1..Len(TokenOrder) : TokenOrder[i] = t
    ELSE 0

\* name a sorts before name b
RECURSIVE NameLess(_, _)
NameLess(a, b) ==
    IF b = <<>> THEN FALSE
    ELSE IF a = <<>> THEN TRUE
    ELSE IF Head(a) = Head(b) THEN NameLess(Tail(a), Tail(b))
    ELSE Rank(Head(a)) < Rank(Head(b))

\* the names in set S in ascending order
RECURSIVE SortNames(_)
SortNames(S) ==
    IF S = {} THEN <<>>
    ELSE LET m == CHOOSE x \in S : \A y \in S \ {x} : NameLess(x, y)
         IN  <<m>> \o SortNames(S \ {m})

\* fs.readdirSync(dir) in file system [f, d]: the names of its entries
ReadDir(f, d, dir) ==
    LET here == { q \in (DOMAIN f) \cup d : Under(q, dir) }
        skip == IF dir = Root THEN 1 ELSE Len(dir) + 1
    IN  SortNames({ BeforeFirst(Suffix(q, skip + 1), { "/" }) : q \in here })

RECURSIVE ListFiles(_, _, _, _)
\* the files under directory dir, entry by entry, a directory's files in
\* the place of the directory
ListFiles(f, d, dir, names) ==
    IF names = <<>> THEN <<>>
    ELSE LET q == PathJoin(dir, Head(names))
         IN  (IF q \in d
              THEN ListFiles(f, d, q, ReadDir(f, d, q))
              ELSE <<q>>)
             \o ListFiles(f, d, dir, Tail(names))

\* rev 1: getFiles(dir, ext); ext = "" lists every file
getFiles(f, d, dir, ext) ==
    IF ~ExistsIn(f, d, dir) THEN <<>>
    ELSE SelectSeq(ListFiles(f, d, dir, ReadDir(f, d, dir)),
                   LAMBDA q : ext = "" \/ Last(q) = ext)

\* rev 2: getAllFiles(dirPath)
getAllFiles(f, d, dir) == ListFiles(f, d, dir, ReadDir(f, d, dir))

---------------------------------------------------------------------------
(* Inputs: the configuration, the source site and the environment *)

\* the default of GHOST_URL: 'http://localhost:2368'
DefaultGhostUrl == <<"http:", "/", "/", "localhost", ":2368">>

BlogUrl == <<"https:", "/", "/", "blog", ".", "example", ".", "com">>

\* [ghost |-> GHOST_URL, deploy |-> DEPLOY_URL]; deploy = <<>>: not set
OriginPairs ==
    { [ghost |-> DefaultGhostUrl, deploy |-> BlogUrl],
      [ghost |-> DefaultGhostUrl, deploy |-> BlogUrl \o <<"/">>],
      [ghost |-> DefaultGhostUrl, deploy |-> <<>>],
      [ghost |-> <<"http:", "/", "/", "ghost", ".", "lan">>, deploy |-> BlogUrl],
      [ghost |-> <<"http:", "/", "/", "blog", ".", "example">>,
       deploy |-> <<"http:", "/", "/", "blog", ".", "example", ".", "com">>],
      [ghost |-> <<"http:", "/", "/", "blog", ".", "example">>, deploy |-> BlogUrl] }

\* the directory of deploy.js (__dirname)
ScriptDirs == { <<"/", "srv">>, <<"/", "u", "@", "h">> }

\* the working directories the script is started from: its own directory
\* (npm run deploy) or, for one of the script directories, another one
WorkDirs(dir) ==
    { dir } \cup (IF dir = <<"/", "srv">> THEN { <<"/", "home">> } ELSE {})

\* origin S with every "." replaced by "X": another host's address that the
\* unescaped pattern of S matches
OtherHost(S) == [i \in 1..Len(S) |-> IF S[i] = "." THEN "X" ELSE S[i]]

SrcsetExample ==
    <<"/", "content", "/", "images", "/", "a", ".png", " ", "600w", ",", " ",
      "/", "content", "/", "images", "/", "b", ".png", "?", "v", "=", "2",
      " ", "1000w">>

ImageA == <<"/", "content", "/", "images", "/", "a", ".png">>
ImageB == <<"/", "content", "/", "images", "/", "b", ".png">>

Img(attr, value) == <<"<img ", attr, "\"">> \o value \o <<"\"", ">">>

Link(S, path) == <<"<a ", "href=", "\"">> \o S \o path \o <<"\"", ">">>

\* the contents of the resources of the source
ErrPage(S) == <<"<h1>", "404">> \o Link(S, <<"/">>)

Feed(S) == <<"<rss>", "<link>">> \o S \o <<"/", "</link>">>

SitemapXml(S) ==
    <<"<?xml", " ", "version", "?", ">",
      "<?xml-stylesheet", " ", "href=", "\"", "/", "/">> \o StripScheme(S)
    \o <<"/", "sitemap", ".xsl", "\"", "?", ">", "<loc>">> \o S \o <<"/", "</loc>">>

\* The sites the mirror can bring: each a function from the path of a file,
\* relative to the output directory and as wget names it on disk
\* (--restrict-file-names=windows writes "?" as "@"), to its contents.
\* S is the source origin the pages refer to.
SiteLinks(S) ==
    (<<"index", ".html">> :> Link(S, <<"/", "about">>)
                               \o Link(OtherHost(S), <<"/", "about">>))
    @@ (<<"robots", ".txt">> :> <<"Sitemap:", " ">> \o S \o <<"/", "sitemap", ".xml">>)
    @@ (<<"style", ".css">> :> <<"url(">> \o S \o <<"/", "logo", ".png", ")">>)
    @@ (<<"style", ".css", "@", "v", "=", "3">> :> <<"css-v3">>)
    @@ (<<"sitemap", ".xml", ".html">> :> SitemapXml(S))

SiteAssets(S) ==
    (<<"index", ".html">> :>
        <<"<link ", "href=", "\"", "/", "style", ".css", "?", "v", "=", "1", "\"", ">",
          "<script", " ", "src=", "\"", "/", "tag", "/", "a", "=", "b", "/", "app",
          ".js", "?", "v", "=", "1", "\"", "></script>">>)
    @@ (<<"style", ".css", "@", "v", "=", "1">> :> <<"css-v1">>)
    @@ (<<"style", ".css", "@", "v", "=", "2">> :> <<"css-v2">>)
    @@ (<<"tag", "/", "a", "=", "b", "/", "app", ".js", "@", "v", "=", "1">> :> <<"js-v1">>)

\* an image the source does not serve
ImageGone == <<"/", "content", "/", "images", "/", "logo", ".png">>

SiteImages(S) ==
    (<<"index", ".html">> :>
        Img("srcset=", SrcsetExample)
        \o Img("src=", S \o ImageA)
        \o Img("src=", <<"/", "logo", ".png", "?", "v", "=", "2">>)
        \o Img("src=", S \o ImageB)
        \o Img("src=", ImageGone)
        \o Img("src=", S \o ImageGone))
    @@ (Tail(ImageA) :> <<"png-a">>)

\* the elements of a page that the README's example selectors match
HeadActions == "<div class=gh-head-actions></div>"

SubscribeOverlay == "<div class=subscribe-overlay></div>"

SiteComplete(S) ==
    (<<"index", ".html">> :>
        <<HeadActions>> \o Img("srcset=", SrcsetExample)
        \o Img("src=", S \o ImageB) \o <<SubscribeOverlay>>)
    @@ (Tail(ImageA) :> <<"png-a">>)
    @@ (Tail(ImageB) :> <<"png-b">>)

\* with a 404.html of its own and an asset below /404/
SiteSrcset(S) ==
    (<<"index", ".html">> :> Img("srcset=", SrcsetExample))
    @@ (<<"404", ".html">> :> <<"old-404">>)
    @@ (<<"404", "/", "logo", ".png">> :> <<"png-logo">>)

\* a reference that holds /content/images/ in its query only
QueryRef ==
    <<"/", "logo", ".png", "?", "ref", "=", "/", "content", "/", "images", "/">>

\* a reference that leaves /content/images/ by ".." segments
DotsRef ==
    <<"/", "content", "/", "images", "/", "..", "/", "..", "/", "..", "/",
      "stray", ".png">>

SiteEncoded(S) ==
    (<<"index", ".html">> :>
        Img("src=", <<"/", "content", "/", "images", "/", "pic", "%", "2", "5", "2", "0",
                      "w600", ".png">>)
        \o Img("src=", QueryRef)
        \o Img("src=", DotsRef))
    @@ (<<"content", "/", "images", "/", "pic", "%", "2", "0", "w600", ".png">> :> <<"png-pic">>)

\* <script src="...">
Script(src) == <<"<script", " ", "src=", "\"">> \o src \o <<"\"", "></script>">>

\* A page with an animated image, the script tag of the membership widget
\* between two other scripts on one line, and the tag once more with its
\* attributes on lines of their own. A second page with the tag between the
\* name of a style sheet and a question mark, a style sheet address whose
\* query holds the source origin with a space for every "." (text the
\* unescaped pattern of the origin matches), and an image for dense
\* displays ("@2x"). An xml document whose stylesheet address has a query.
SiteWidgets(S) ==
    LET portal == Script(<<"/", "ghost-portal", ".js">>)
        spaced == [i \in 1..Len(S) |-> IF S[i] = "." THEN " " ELSE S[i]]
    IN  (<<"index", ".html">> :>
            Img("src=", <<"/", "anim", ".gif", "?", "v", "=", "3">>) \o <<"\n">>
            \o Script(<<"/", "a", ".js">>) \o portal \o Script(<<"/", "b", ".js">>)
            \o <<"\n", "<script", "\n", " ", "src=", "\"", "/", "ghost-portal", ".js",
                 "\"", "\n", "></script>">>)
        @@ (<<"about", ".html">> :>
            <<"<p>", "print", ".css">> \o portal \o <<"?", "</p>">>
            \o <<"\n", "<a ", "href=", "\"", "/", "print", ".css", "?", "from", "=">>
            \o spaced \o <<"\"", ">">>
            \o <<"\n">>
            \o Img("src=", <<"/", "hero", "@", "2x", ".png", "?", "v", "=", "1">>))
        @@ (<<"hero", "@", "2x", ".png", "@", "v", "=", "1">> :> <<"png-hero">>)
        @@ (<<"anim", ".gif", "@", "v", "=", "3">> :> <<"gif-v3">>)
        @@ (<<"feed", ".xml">> :>
               <<"<?xml-stylesheet", " ", "href=", "\"", "/", "feed", ".xsl", "?", "v",
                 "=", "2", "\"", "?", ">", "<loc>", "/", "/">> \o StripScheme(S)
               \o <<"/", "</loc>">>)

\* a page with an image whose address holds a "%" that begins no escape
SiteMalformed(S) ==
    (<<"index", ".html">> :>
        Img("src=", S \o ImageA)
        \o Img("src=", <<"/", "content", "/", "images", "/", "100", "%", ".png">>))

SiteNames ==
    { "links", "assets", "images", "complete", "srcset", "encoded", "widgets",
      "malformed" }

Site(name, S) ==
    CASE name = "links"    -> SiteLinks(S)
      [] name = "assets"   -> SiteAssets(S)
      [] name = "images"   -> SiteImages(S)
      [] name = "complete" -> SiteComplete(S)
      [] name = "srcset"   -> SiteSrcset(S)
      [] name = "encoded"  -> SiteEncoded(S)
      [] name = "widgets"  -> SiteWidgets(S)
      [] name = "malformed" -> SiteMalformed(S)

\* the values of the build-only flag a site is built with; no statement of
\* the script reads the flag, so it is varied for one site only
Modes(name) == IF name = "complete" THEN BOOLEAN ELSE { FALSE }

\* const sitemaps = [...]
sitemaps ==
    << <<"sitemap", ".xml">>, <<"sitemap-pages", ".xml">>, <<"sitemap-posts", ".xml">>,
       <<"sitemap-authors", ".xml">>, <<"sitemap-tags", ".xml">> >>

\* What the source answers to the direct fetches: "ok" (the resource, not
\* empty), "empty" (status 200 and no content) or "fail" (wget exits
\* non-zero: an error status or no answer).
Outcomes == { "ok", "empty", "fail" }

\* mirror: the exit status of the mirroring wget (8: the source answered
\* some request of the crawl with an error)
Servers ==
    { [mirror |-> 0, err |-> "ok", rss |-> "ok",
       maps |-> <<"ok", "ok", "ok", "ok", "ok">>],
      [mirror |-> 8, err |-> "fail", rss |-> "ok",
       maps |-> <<"ok", "ok", "empty", "fail", "ok">>],
      [mirror |-> 0, err |-> "empty", rss |-> "empty",
       maps |-> <<"fail", "fail", "fail", "fail", "fail">>] }

\* the images the source serves, by URL path
ServedImages == { ImageA, ImageB }

ImageData(path) == <<"png">> \o path

---------------------------------------------------------------------------
(* The state of one run *)

VARIABLES
    rev,          \* 1 or 2: the revision of deploy.js that runs
    deployUrl,    \* DEPLOY_URL; <<>> when it is not set
    ghostUrl,     \* GHOST_URL
    scriptDir,    \* __dirname
    cwd,          \* the working directory of the process
    buildOnly,    \* the build-only mode is selected (npm run build)
    previous,     \* history: the files an earlier run left, by absolute path
    siteName,     \* the site the source serves to the mirror
    server,       \* what the source answers to the direct fetches
    pc,           \* the statement the script is at
    files,        \* the regular files: absolute path -> contents
    dirs,         \* the directories: absolute paths
    fetched,      \* the URLs fetched one by one (not by the mirror), in order
    sitemapIdx,   \* rev 1: the index of the next entry of sitemaps
    sitemapCount, \* rev 1: sitemapCount
    foundImages,  \* the Set foundImages, in insertion order
    imgIdx,       \* the index of the next entry of foundImages
    dlCount,      \* dlCount (rev 1), downloadedCount (rev 2)
    todo,         \* the rest of the file list of the sanitation loop
    warnings,     \* the commands whose failure console.warn has reported
    softFailures, \* history: the commands that failed at a call site that
                  \* ignores errors
    published,    \* the directories handed to gh-pages
    exitCode,     \* the exit status; -1 while the script runs
    snap          \* history: files and dirs at the start of the current stage

vars ==
    << rev, deployUrl, ghostUrl, scriptDir, cwd, buildOnly, previous, siteName,
       server, pc, files, dirs,
       fetched, sitemapIdx, sitemapCount, foundImages, imgIdx, dlCount, todo,
       warnings, softFailures, published, exitCode, snap >>

config ==
    << rev, deployUrl, ghostUrl, scriptDir, cwd, buildOnly, previous, siteName,
       server >>

mapVars == << sitemapIdx, sitemapCount >>

auditVars == << foundImages, imgIdx, dlCount >>

logVars == << warnings, softFailures >>

\* a relative path is relative to the working directory; ".." segments
\* are resolved
Abs(p) == ResolveDots(IF p # <<>> /\ Head(p) = "/" THEN p ELSE PathJoin(cwd, p))

\* rev 1: CONFIG.distDir = path.resolve(__dirname, 'dist')
distDir1 == PathJoin(scriptDir, <<"dist">>)

\* rev 2: DIST_DIR = './dist', which path.join writes 'dist'
distDir2 == <<"dist">>

\* the output directory as the script names it
distDir == IF rev = 1 THEN distDir1 ELSE distDir2

existsSync(p) == ExistsIn(files, dirs, Abs(p))

\* the files of the output directory and below
DistFiles == { q \in DOMAIN files : Under(q, Abs(distDir)) }

\* a file left in the output directory by an earlier run
OldFile == PathJoin(distDir, <<"old", ".html">>)

\* what an earlier run left in the output directory: a page and an image
Leftover ==
    (Abs(OldFile) :> <<"old">>)
    @@ (Abs(PathJoin(distDir, ImageB)) :> <<"stale">>)

Snapshot(f, d) == [files |-> f, dirs |-> d]

Init ==
    /\ rev \in { 1, 2 }
    /\ \E o \in OriginPairs : ghostUrl = o.ghost /\ deployUrl = o.deploy
    /\ scriptDir \in ScriptDirs
    /\ cwd \in WorkDirs(scriptDir)
    /\ siteName \in SiteNames
    /\ buildOnly \in Modes(siteName)
    /\ server \in Servers
    /\ pc = "validate"
    /\ \E old \in BOOLEAN :
          /\ files = IF old THEN Leftover ELSE Without(<< >>, {})
          /\ dirs = WithParents(scriptDir) \cup WithParents(cwd)
                    \cup (IF old
                          THEN UNION { WithParents(Dirname(q)) : q \in DOMAIN Leftover }
                          ELSE {})
    /\ previous = files
    /\ fetched = <<>>
    /\ sitemapIdx = 1
    /\ sitemapCount = 0
    /\ foundImages = <<>>
    /\ imgIdx = 1
    /\ dlCount = 0
    /\ todo = <<>>
    /\ warnings = {}
    /\ softFailures = {}
    /\ published = {}
    /\ exitCode = -1
    /\ snap = Snapshot(files, dirs)

---------------------------------------------------------------------------
(* The steps of the script *)

\* the stage that follows, with the history variable set to the file system
\* the stage starts from
Goto(next, f, d) ==
    /\ pc' = next
    /\ files' = f
    /\ dirs' = d
    /\ snap' = Snapshot(f, d)

\* mutant of Validate: DEPLOY_URL is not looked at
ValidateSkipped ==
    /\ pc = "validate"
    /\ pc' = "clean"
    /\ UNCHANGED << config, files, dirs, fetched, mapVars, auditVars, todo,
                    logVars, published, exitCode, snap >>

\* if (!CONFIG.deployUrl) { console.error(...); process.exit(1); }
Validate ==
    /\ pc = "validate"
    /\ IF deployUrl = <<>>
       THEN /\ pc' = "exit"
            /\ exitCode' = 1
       ELSE /\ pc' = "clean"
            /\ exitCode' = exitCode
    /\ UNCHANGED << config, files, dirs, fetched, todo,
                    logVars, published, snap, auditVars, mapVars >>

\* mutant of Clean: the output directory is made but not emptied
CleanSkipped ==
    /\ pc = "clean"
    /\ Goto("mirror", files, dirs \cup WithParents(Abs(distDir)))
    /\ UNCHANGED << config, fetched, todo, logVars,
                    published, exitCode, auditVars, mapVars >>

\* fs.emptyDirSync(distDir): the directory is made if it is missing, and
\* everything in it is removed
Clean ==
    /\ pc = "clean"
    /\ LET dist == Abs(distDir)
       IN  Goto("mirror",
                Without(files, { q \in DOMAIN files : Under(q, dist) }),
                { q \in dirs : ~Under(q, dist) } \cup WithParents(dist))
    /\ UNCHANGED << config, fetched, todo, logVars,
                    published, exitCode, auditVars, mapVars >>

\* file system [f, d] after a file with contents c is written at path p,
\* the directories above it made
Written(f, d, p, c) ==
    [files |-> With(f, p, c), dirs |-> d \cup WithParents(Dirname(p))]

\* wget -m -P distDir GHOST_URL: the files of the site are written below the
\* output directory; the exit status is non-zero when the source answered a
\* request of the crawl with an error, which only logs a warning
Mirror ==
    /\ pc = "mirror"
    /\ LET site == Site(siteName, ghostUrl)
           at(rel) == Abs(PathJoin(distDir, rel))
           new  == { at(rel) : rel \in DOMAIN site }
           f2   == [q \in (DOMAIN files) \cup new |->
                      IF q \in new
                      THEN site[CHOOSE rel \in DOMAIN site : at(rel) = q]
                      ELSE files[q]]
           d2   == dirs \cup UNION { WithParents(Dirname(q)) : q \in new }
       IN  Goto("err404", f2, d2)
    /\ softFailures' = IF server.mirror = 0 THEN softFailures
                        ELSE softFailures \cup { "mirror" }
    /\ warnings' = IF server.mirror = 0 THEN warnings
                    ELSE warnings \cup { "mirror" }
    /\ UNCHANGED << config, fetched, todo,
                    published, exitCode, auditVars, mapVars >>

\* wget -P distDir url (no -O): the answer is saved at path p unless the
\* fetch fails; an empty answer is saved as an empty file
PageFetched(outcome, p, content) ==
    CASE outcome = "ok"    -> Written(files, dirs, p, content)
      [] outcome = "empty" -> Written(files, dirs, p, <<>>)
      [] outcome = "fail"  -> Snapshot(files, dirs)

\* a command run with ignoreErrors = true: rev 1, shell(cmd, true) logs a
\* warning when the command fails; rev 2, runCommand(command, true) logs
\* nothing
SoftFailure(cmd, failed) ==
    /\ softFailures' = IF failed THEN softFailures \cup { cmd } ELSE softFailures
    /\ warnings' = IF failed /\ rev = 1 THEN warnings \cup { cmd } ELSE warnings

\* shell(`... ${ghostUrl}/404/`, true)
Fetch404 ==
    /\ pc = "err404"
    /\ LET p   == Abs(PathJoin(distDir, <<"404", "/", "index", ".html">>))
           fs2 == PageFetched(server.err, p, ErrPage(ghostUrl))
       IN  Goto("rss", fs2.files, fs2.dirs)
    /\ fetched' = Append(fetched, ghostUrl \o <<"/", "404", "/">>)
    /\ SoftFailure("err404", server.err = "fail")
    /\ UNCHANGED << config, todo, published,
                    exitCode, auditVars, mapVars >>

\* shell(`... ${ghostUrl}/rss/`, true)
FetchRss ==
    /\ pc = "rss"
    /\ LET p   == Abs(PathJoin(distDir, <<"rss", "/", "index", ".html">>))
           fs2 == PageFetched(server.rss, p, Feed(ghostUrl))
       IN  Goto(IF rev = 1 THEN "sitemaps" ELSE "scan", fs2.files, fs2.dirs)
    /\ fetched' = Append(fetched, ghostUrl \o <<"/", "rss", "/">>)
    /\ SoftFailure("rss", server.rss = "fail")
    /\ UNCHANGED << config, todo, published,
                    exitCode, auditVars, mapVars >>

\* mutant of FetchSitemap: the file of an empty or failed fetch is left
FetchSitemapKept ==
    /\ pc = "sitemaps"
    /\ sitemapIdx <= Len(sitemaps)
    /\ LET destPath == Abs(PathJoin(distDir, sitemaps[sitemapIdx]))
           outcome  == server.maps[sitemapIdx]
       IN  /\ IF outcome = "ok"
              THEN /\ files' = With(files, destPath, SitemapXml(ghostUrl))
                   /\ sitemapCount' = sitemapCount + 1
              ELSE /\ files' = With(files, destPath, <<>>)
                   /\ sitemapCount' = sitemapCount
           /\ fetched' = Append(fetched, ghostUrl \o <<"/">> \o sitemaps[sitemapIdx])
    /\ sitemapIdx' = sitemapIdx + 1
    /\ UNCHANGED << config, pc, dirs, todo,
                    logVars, published, exitCode, snap, auditVars >>

\* rev 1, one turn of "for (const sitemap of sitemaps)": wget -O destPath
\* makes the file before it fetches; an empty file, or the file of a failed
\* fetch, is removed
FetchSitemap ==
    /\ pc = "sitemaps"
    /\ sitemapIdx <= Len(sitemaps)
    /\ LET destPath == Abs(PathJoin(distDir, sitemaps[sitemapIdx]))
           outcome  == server.maps[sitemapIdx]
       IN  /\ IF outcome = "ok"
              THEN /\ files' = With(files, destPath, SitemapXml(ghostUrl))
                   /\ sitemapCount' = sitemapCount + 1
              ELSE /\ files' = Without(files, {destPath})
                   /\ sitemapCount' = sitemapCount
           /\ fetched' = Append(fetched, ghostUrl \o <<"/">> \o sitemaps[sitemapIdx])
    /\ sitemapIdx' = sitemapIdx + 1
    /\ UNCHANGED << config, pc, dirs, todo,
                    logVars, published, exitCode, snap, auditVars >>

\* rev 1: the loop over sitemaps is done
SitemapsDone ==
    /\ pc = "sitemaps"
    /\ sitemapIdx > Len(sitemaps)
    /\ Goto("scan", files, dirs)
    /\ UNCHANGED << config, fetched, todo, logVars,
                    published, exitCode, auditVars, mapVars >>

RECURSIVE Flatten(_)
\* the concatenation of the sequences of a sequence
Flatten(ss) == IF ss = <<>> THEN <<>> ELSE Head(ss) \o Flatten(Tail(ss))

RECURSIVE Dedup(_)
\* Set.prototype.add, entry by entry: the first occurrence of each entry
Dedup(s) ==
    IF s = <<>> THEN s
    ELSE LET front == Dedup(Prefix(s, Len(s) - 1))
         IN  IF Last(s) \in SeqToSet(front) THEN front ELSE Append(front, Last(s))

\* the html files the scraper reads, as the script names them
htmlFiles ==
    IF rev = 1
    THEN getFiles(files, dirs, distDir, ".html")
    ELSE SelectSeq(getAllFiles(files, dirs, Abs(distDir)),
                   LAMBDA q : Last(q) = ".html")

\* of one file's contents: the image URLs found, query stripped, in order
StrippedUrls(r, content) ==
    LET values == AttrValues(content)
        urls   == Flatten([i \in 1..Len(values) |-> ImageCandidates(values[i])])
    IN  [i \in 1..Len(urls) |-> StripQuery(r, urls[i])]

\* of every html file: the image URLs found, query stripped, in order
AllStrippedUrls ==
    Flatten([i \in 1..Len(htmlFiles) |-> StrippedUrls(rev, files[Abs(htmlFiles[i])])])

\* "3. Asset Scraper" / "4. ADVANCED IMAGE SCRAPER", the scan of the html
\* files: a URIError of decodeURIComponent is caught nowhere and ends the run
Scan ==
    /\ pc = "scan"
    /\ LET urls == AllStrippedUrls
       IN  IF \E i \in 1..Len(urls) : Malformed(urls[i])
           THEN /\ pc' = "crashed"
                /\ exitCode' = 1
                /\ foundImages' = foundImages
           ELSE /\ pc' = "download"
                /\ exitCode' = exitCode
                /\ foundImages' =
                      Dedup([i \in 1..Len(urls) |-> DecodeURIComponent(urls[i])])
    /\ UNCHANGED << config, files, dirs, fetched, mapVars, imgIdx, dlCount,
                    todo, logVars, published, snap >>

\* mutant of relativePath: the scheme and host are not removed
relativePathRaw(rawPath) == rawPath

\* of an entry of foundImages: relativePath and localDest / localFile
relativePath(rawPath) == StripHost(rawPath)

\* mutant of localDest: the scheme and host of the reference are kept
localDestRaw(rawPath) == PathJoin(distDir, rawPath)

localDest(rawPath) == PathJoin(distDir, relativePath(rawPath))

\* one turn of "for (const rawPath of foundImages)": an image that is not on
\* disk is fetched with wget -O, which makes the file before it fetches and
\* leaves it empty when the fetch fails
Download ==
    /\ pc = "download"
    /\ imgIdx <= Len(foundImages)
    /\ LET rawPath == foundImages[imgIdx]
           dest    == Abs(localDest(rawPath))
           served  == relativePath(rawPath) \in ServedImages
           fs2     == Written(files, dirs, dest,
                              IF served THEN ImageData(relativePath(rawPath))
                              ELSE <<>>)
       IN  IF existsSync(localDest(rawPath))
           THEN UNCHANGED << files, dirs, fetched, dlCount >>
           ELSE /\ files' = fs2.files
                /\ dirs' = fs2.dirs
                /\ fetched' = Append(fetched, ghostUrl \o relativePath(rawPath))
                /\ dlCount' = IF served THEN dlCount + 1 ELSE dlCount
    /\ imgIdx' = imgIdx + 1
    /\ UNCHANGED << config, pc, mapVars, foundImages, todo, logVars,
                    published, exitCode, snap >>

\* the file list of the sanitation loop, as the script names the files:
\* rev 1 getFiles(CONFIG.distDir), rev 2 getAllFiles(DIST_DIR)
allFiles(f, d) ==
    IF rev = 1
    THEN getFiles(f, d, distDir, "")
    ELSE LET dist == Abs(distDir)
             list == getAllFiles(f, d, dist)
         IN  [i \in 1..Len(list) |-> distDir \o Suffix(list[i], Len(dist) + 1)]

\* the number of fetches the supplementary stage makes
SupplementaryFetches == IF rev = 1 THEN 2 + Len(sitemaps) ELSE 2

\* rev 2: failedCount, the fetches of the download loop that failed
failedCount ==
    Cardinality({ i \in 1..Len(fetched) :
                    /\ i > SupplementaryFetches
                    /\ Suffix(fetched[i], Len(ghostUrl) + 1) \notin ServedImages })

\* the loop over foundImages is done: rev 2 warns when a fetch failed; the
\* file list of the sanitation is read
DownloadDone ==
    /\ pc = "download"
    /\ imgIdx > Len(foundImages)
    /\ Goto("sanitize", files, dirs)
    /\ todo' = allFiles(files, dirs)
    /\ warnings' = IF rev = 2 /\ failedCount > 0
                   THEN warnings \cup { "assets" }
                   ELSE warnings
    /\ UNCHANGED << config, fetched, mapVars, auditVars, softFailures,
                    published, exitCode >>

\* /[?=@]/
Disallowed == { "?", "=", "@" }

\* file.split(/[?=@]/)[0]
cleanPath(file) == BeforeFirst(file, Disallowed)

\* file system [f, d] after fs.moveSync(src, dest)
Moved(f, d, src, dest) ==
    [files |-> With(Without(f, {src}), dest, f[src]),
     dirs  |-> d \cup WithParents(Dirname(dest))]

\* mutant of Sanitized: the move overwrites the file at the cleaned path
SanitizedOverwrite(f, d, file) ==
    IF \E i \in 1..Len(file) : file[i] \in Disallowed
    THEN Moved(f, d, Abs(file), Abs(cleanPath(file)))
    ELSE Snapshot(f, d)

\* file system [f, d] after the body of the forEach of "4a. File Renaming" /
\* "5. SANITIZE FILENAMES" has run on one file: the test and the split are
\* made on the whole path of the file
Sanitized(f, d, file) ==
    LET clean == cleanPath(file)
    IN  IF \E i \in 1..Len(file) : file[i] \in Disallowed
        THEN IF ExistsIn(f, d, Abs(clean))
             THEN [files |-> Without(f, {Abs(file)}), dirs |-> d]
             ELSE Moved(f, d, Abs(file), Abs(clean))
        ELSE Snapshot(f, d)

\* one turn of the forEach
Sanitize ==
    /\ pc = "sanitize"
    /\ todo # <<>>
    /\ LET fs2 == Sanitized(files, dirs, Head(todo))
       IN  files' = fs2.files /\ dirs' = fs2.dirs
    /\ todo' = Tail(todo)
    /\ UNCHANGED << config, pc, fetched, mapVars, auditVars, logVars,
                    published, exitCode, snap >>

SanitizeDone ==
    /\ pc = "sanitize"
    /\ todo = <<>>
    /\ Goto("fix404", files, dirs)
    /\ UNCHANGED << config, fetched, mapVars, auditVars, todo, logVars,
                    published, exitCode >>

\* file system [f, d] after fs.removeSync(dir) of a directory
TreeRemoved(f, d, dir) ==
    [files |-> Without(f, { q \in DOMAIN f : Under(q, dir) }),
     dirs  |-> { q \in d : q # dir /\ ~Under(q, dir) }]

\* "4b. Structural Fixes (404)" / "404 Fix"
Fix404 ==
    /\ pc = "fix404"
    /\ LET srcPath == Abs(PathJoin(distDir, <<"404", "/", "index", ".html">>))
           dest    == Abs(PathJoin(distDir, <<"404", ".html">>))
           moved   == Moved(files, dirs, srcPath, dest)
           fs2     == TreeRemoved(moved.files, moved.dirs, Dirname(srcPath))
           next    == IF rev = 1 THEN "rewriteHtml" ELSE "urlRewrite"
       IN  IF srcPath \in DOMAIN files
           THEN Goto(next, fs2.files, fs2.dirs)
           ELSE Goto(next, files, dirs)
    /\ UNCHANGED << config, fetched, mapVars, auditVars, todo, logVars,
                    published, exitCode >>

\* the files the glob `${distDir}/**/*${ext}` names
Glob(ext) == { q \in DistFiles : Last(q) = ext }

\* the from/to rules of one replaceInFile call, applied to the contents c
RuleApplied(rule, c) ==
    CASE rule = "html1"    -> RewriteHtml1(c, ghostUrl, deployUrl)
      [] rule = "xml1"     -> RewriteXml1(c, ghostUrl, deployUrl)
      [] rule = "origin"   -> RegexReplaceAll(c, ghostUrl, deployUrl)
      [] rule = "versions" -> StripCacheBusters(c, AssetExts2)
      [] rule = "portal"   -> RemovePortal(c)

\* replaceInFile({files: glob, from, to}): the files after the call
Replaced(ext, rule) ==
    [q \in DOMAIN files |->
        IF q \in Glob(ext) THEN RuleApplied(rule, files[q]) ELSE files[q]]

\* rev 1, "5. Content Replacements": the html pass
RewriteHtml ==
    /\ pc = "rewriteHtml"
    /\ files' = Replaced(".html", "html1")
    /\ pc' = "rewriteXml"
    /\ UNCHANGED << config, dirs, fetched, mapVars, auditVars, todo, logVars,
                    published, exitCode, snap >>

\* rev 1, "5a. Fix sitemap URLs": the xml pass
RewriteXml ==
    /\ pc = "rewriteXml"
    /\ files' = Replaced(".xml", "xml1")
    /\ pc' = "prepare"
    /\ UNCHANGED << config, dirs, fetched, mapVars, auditVars, todo, logVars,
                    published, exitCode, snap >>

\* rev 2, "URL Rewrite"
UrlRewrite ==
    /\ pc = "urlRewrite"
    /\ files' = Replaced(".html", "origin")
    /\ pc' = "cleanVersions"
    /\ UNCHANGED << config, dirs, fetched, mapVars, auditVars, todo, logVars,
                    published, exitCode, snap >>

\* rev 2, "Clean Versions"
CleanVersions ==
    /\ pc = "cleanVersions"
    /\ files' = Replaced(".html", "versions")
    /\ pc' = "removePortal"
    /\ UNCHANGED << config, dirs, fetched, mapVars, auditVars, todo, logVars,
                    published, exitCode, snap >>

\* rev 2, "Remove Portal"
RemovePortalPass ==
    /\ pc = "removePortal"
    /\ files' = Replaced(".html", "portal")
    /\ pc' = "sitemapFix"
    /\ UNCHANGED << config, dirs, fetched, mapVars, auditVars, todo, logVars,
                    published, exitCode, snap >>

\* rev 2, "Sitemap Fix"
SitemapFix ==
    /\ pc = "sitemapFix"
    /\ LET sitemapWrong == Abs(PathJoin(distDir, <<"sitemap", ".xml", ".html">>))
           sitemapRight == Abs(PathJoin(distDir, <<"sitemap", ".xml">>))
           fs2 == Moved(files, dirs, sitemapWrong, sitemapRight)
       IN  IF sitemapWrong \in DOMAIN files
           THEN files' = fs2.files /\ dirs' = fs2.dirs
           ELSE UNCHANGED << files, dirs >>
    /\ pc' = "prepare"
    /\ UNCHANGED << config, fetched, mapVars, auditVars, todo, logVars,
                    published, exitCode, snap >>

\* "6. Deploy Preparation" / "7. Deploy": CNAME, .nojekyll and, in rev 2,
\* .gitignore
Prepare ==
    /\ pc = "prepare"
    /\ LET at(name) == Abs(PathJoin(distDir, name))
           domain   == StripScheme(deployUrl)
           f1 == With(files, at(<<"CNAME">>), domain)
           f2 == With(f1, at(<<".nojekyll">>), <<>>)
           f3 == IF rev = 1 THEN f2
                 ELSE With(f2, at(<<".gitignore">>), <<"node_modules/", "\n">>)
       IN  Goto("publish", f3, dirs)
    /\ UNCHANGED << config, fetched, mapVars, auditVars, todo, logVars,
                    published, exitCode >>

\* shell('npx gh-pages -d dist ...', true): "dist" is relative to the
\* working directory; a failure of the command is ignored
Publish ==
    /\ pc = "publish"
    /\ published' = published \cup { Abs(<<"dist">>) }
    /\ \E status \in { 0, 1 } : SoftFailure("publish", status # 0)
    /\ pc' = "done"
    /\ exitCode' = 0
    /\ UNCHANGED << config, files, dirs, fetched, mapVars, auditVars, todo, snap >>

Next ==
    \/ Validate
    \/ Clean
    \/ Mirror
    \/ Fetch404
    \/ FetchRss
    \/ FetchSitemap
    \/ SitemapsDone
    \/ Scan
    \/ Download
    \/ DownloadDone
    \/ Sanitize
    \/ SanitizeDone
    \/ Fix404
    \/ RewriteHtml
    \/ RewriteXml
    \/ UrlRewrite
    \/ CleanVersions
    \/ RemovePortalPass
    \/ SitemapFix
    \/ Prepare
    \/ Publish

Spec == Init /\ [][Next]_vars

---------------------------------------------------------------------------
(* Properties *)

\* path.basename
Basename(p) ==
    LET sl == { i \in 1..Len(p) : p[i] = "/" }
    IN  IF sl = {} THEN p
        ELSE Suffix(p, (CHOOSE i \in sl : \A j \in sl : j <= i) + 1)

IsDirty(name) == \E i \in 1..Len(name) : name[i] \in Disallowed

\* the replacement of every literal occurrence of from in s by to
RECURSIVE LiteralReplaceAll(_, _, _)
LiteralReplaceAll(s, from, to) ==
    IF s = <<>> \/ from = <<>> THEN s
    ELSE IF StartsAt(s, 1, from)
         THEN to \o LiteralReplaceAll(Suffix(s, Len(from) + 1), from, to)
         ELSE <<Head(s)>> \o LiteralReplaceAll(Tail(s), from, to)

\* the files of the output directory at the start of the current stage
SnapDistFiles == { q \in DOMAIN snap.files : Under(q, Abs(distDir)) }

\* the content rewrite is done (snap: the files before it)
RewriteEnd == pc = "prepare"

\* the sanitation loop is done (snap: the files before it)
SanitizeEnd == pc = "sanitize" /\ todo = <<>>

\* the download loop of the asset audit is done (snap: the files before
\* the audit)
AuditEnd == pc = "download" /\ imgIdx > Len(foundImages)

\* the supplementary fetches are done
SupplementaryEnd == pc = "scan"

\* the files a pass of the content rewrite is made on
Rewritten == Glob(".html") \cup (IF rev = 1 THEN Glob(".xml") ELSE {})

(* C1: at the end of the content rewrite no file of the output directory,  *)
(* of whatever kind, holds the source origin.                              *)
C1_NoSourceOrigin ==
    RewriteEnd => \A q \in DistFiles : ~Includes(files[q], ghostUrl)

\* the html rules with the origin replaced literally
ExpectedHtml(c) ==
    RemovePortal(
        StripCacheBusters(LiteralReplaceAll(c, ghostUrl, deployUrl),
                          IF rev = 1 THEN AssetExts1 ELSE AssetExts2))

\* every occurrence of the source origin in old, with the token after it,
\* is in new the destination origin with that token
OccurrencesRewritten(old, new) ==
    \A i \in 1..Len(old) :
        (StartsAt(old, i, ghostUrl) /\ i + Len(ghostUrl) <= Len(old))
            => Includes(new, deployUrl \o <<old[i + Len(ghostUrl)]>>)

(* C2: the rewrite replaces every literal occurrence of the source origin  *)
(* by the destination origin (S followed by p becomes D followed by p, and *)
(* S is gone) and changes nothing that is no literal occurrence of it, for *)
(* every pair of origins.                                                  *)
C2_LiteralReplacement ==
    RewriteEnd =>
        \A q \in Rewritten \cap DOMAIN snap.files :
            /\ OccurrencesRewritten(snap.files[q], files[q])
            /\ ~Includes(files[q], ghostUrl)
            /\ Last(q) = ".html" => files[q] = ExpectedHtml(snap.files[q])

(* C3: after the sanitation every file whose name held "?", "=" or "@" is  *)
(* on disk, in its directory, under the part of its name before the first  *)
(* such character, and no file of the output directory, at any depth, has  *)
(* such a character in its name.                                           *)
C3_NamesTruncated ==
    SanitizeEnd =>
        /\ \A q \in DistFiles : ~IsDirty(Basename(q))
        /\ \A q \in SnapDistFiles :
              IsDirty(Basename(q))
                  => PathJoin(Dirname(q), cleanPath(Basename(q))) \in DOMAIN files

\* the file list the sanitation loop started from
SanitizeList == allFiles(snap.files, snap.dirs)

\* the first file of the list that is cleaned to path c
FirstCleanedTo(c) ==
    LET list == SanitizeList
        hits == { i \in 1..Len(list) : IsDirty(list[i]) /\ Abs(cleanPath(list[i])) = c }
    IN  Abs(list[CHOOSE i \in hits : \A j \in hits : i <= j])

(* C4: after the sanitation every dirty-named file is gone from its dirty  *)
(* path; where something was at the cleaned path before, it is unchanged,  *)
(* and where nothing was, the cleaned path holds the contents of the first *)
(* file of the traversal that is cleaned to it.                            *)
C4_FirstSeenSurvives ==
    SanitizeEnd =>
        \A i \in 1..Len(SanitizeList) :
            LET file == SanitizeList[i]
                c    == Abs(cleanPath(file))
            IN  IsDirty(file) =>
                  /\ Abs(file) \notin DOMAIN files
                  /\ IF ExistsIn(snap.files, snap.dirs, c)
                     THEN IF c \in DOMAIN snap.files
                          THEN c \in DOMAIN files /\ files[c] = snap.files[c]
                          ELSE c \notin DOMAIN files
                     ELSE /\ c \in DOMAIN files
                          /\ files[c] = snap.files[FirstCleanedTo(c)]

\* two dirty-named files with different contents were cleaned to the same
\* path, and the first one's contents are there
C4_Witness ==
    /\ SanitizeEnd
    /\ \E i, j \in 1..Len(SanitizeList) :
          LET a == SanitizeList[i]
              b == SanitizeList[j]
              c == Abs(cleanPath(a))
          IN  /\ i < j
              /\ IsDirty(a)
              /\ IsDirty(b)
              /\ Abs(cleanPath(b)) = c
              /\ ~ExistsIn(snap.files, snap.dirs, c)
              /\ snap.files[Abs(a)] # snap.files[Abs(b)]
              /\ c \in DOMAIN files
              /\ files[c] = snap.files[Abs(a)]

\* the rules of the content rewrite for one file, by its extension
RewriteOf(q, c) ==
    IF Last(q) = ".html"
    THEN IF rev = 1 THEN RewriteHtml1(c, ghostUrl, deployUrl)
         ELSE RewriteHtml2(c, ghostUrl, deployUrl)
    ELSE RewriteXml1(c, ghostUrl, deployUrl)

(* C5: the content rewrite is idempotent: the rules applied again to the   *)
(* rewritten files change nothing.                                         *)
C5_RewriteIdempotent ==
    RewriteEnd => \A q \in Rewritten : RewriteOf(q, files[q]) = files[q]

\* the html files the audit scanned
ScannedHtml == { q \in SnapDistFiles : Last(q) = ".html" }

\* the URL component of every candidate of every src/srcset value of the
\* scanned files: the candidate from its first character that is no white
\* space to the next white space
UrlComponents ==
    UNION { UNION { { BeforeFirst(TrimLeft(c), Whitespace) :
                        c \in SeqToSet(Split(v, ",")) } :
                    v \in SeqToSet(AttrValues(snap.files[q])) } :
            q \in ScannedHtml }

(* C6, as stated: the audit extracts the URL component of every candidate  *)
(* of every src/srcset value, the query string stripped.                   *)
C6_EveryCandidateExtracted ==
    pc = "download" =>
        SeqToSet(foundImages) = { BeforeFirst(u, { "?" }) : u \in UrlComponents }

(* C6, amended: the audit extracts, of every candidate whose URL holds     *)
(* /content/images/, the URL component cut at the first "?" (rev 1: the    *)
(* first "?" or "#") and percent-decoded; the descriptors and the other    *)
(* candidates are dropped; the value of the example gives a.png and b.png. *)
C6_ImageCandidatesExtracted ==
    pc = "download" =>
        /\ SeqToSet(foundImages) =
              { DecodeURIComponent(
                    BeforeFirst(u, IF rev = 1 THEN { "?", "#" } ELSE { "?" })) :
                u \in { v \in UrlComponents : Includes(v, ImagesPrefix) } }
        /\ siteName = "srcset" => SeqToSet(foundImages) = { ImageA, ImageB }

\* the value of the example was scanned
C6_Witness ==
    /\ pc = "download"
    /\ \E q \in ScannedHtml : SrcsetExample \in SeqToSet(AttrValues(snap.files[q]))
    /\ SeqToSet(foundImages) = { ImageA, ImageB }

\* every image found was on disk, at the path its reference normalizes to,
\* when the audit started
AllImagesPresent ==
    \A i \in 1..Len(foundImages) :
        ExistsIn(snap.files, snap.dirs,
                 Abs(PathJoin(distDir, StripHost(foundImages[i]))))

(* C7: an audit of an output directory that holds every referenced image   *)
(* fetches nothing and counts no download.                                 *)
C7_CompleteMirrorNoFetch ==
    (pc = "download" /\ AllImagesPresent)
        => Len(fetched) = SupplementaryFetches /\ dlCount = 0

\* the audit ran to its end over images, one of them referenced with the
\* source origin, that were all there
C7_Witness ==
    /\ AuditEnd
    /\ AllImagesPresent
    /\ \E i \in 1..Len(foundImages) : StripHost(foundImages[i]) # foundImages[i]

\* the normalization of the audit: query stripped, percent-decoded, scheme
\* and host stripped
Normalize(u) == StripHost(DecodeURIComponent(StripQuery(rev, u)))

(* C8: the normalization is idempotent: normalizing a normalized reference *)
(* gives the same path.                                                    *)
C8_NormalizeIdempotent ==
    pc = "download" =>
        \A i \in 1..Len(foundImages) :
            LET n == StripHost(foundImages[i])
            IN  ~Malformed(StripQuery(rev, n)) /\ Normalize(n) = n

\* the target path and the outcome of each supplementary resource
Supplementary ==
    { [path |-> <<"404", "/", "index", ".html">>, outcome |-> server.err],
      [path |-> <<"rss", "/", "index", ".html">>, outcome |-> server.rss] }
    \cup (IF rev = 1
          THEN { [path |-> sitemaps[i], outcome |-> server.maps[i]] :
                 i \in 1..Len(sitemaps) }
          ELSE {})

(* C9: after the supplementary fetches no file is at the target path of a  *)
(* resource that is missing, failed or came empty, and the run goes on.    *)
C9_MissingResourceNoFile ==
    SupplementaryEnd =>
        \A r \in Supplementary :
            r.outcome # "ok" => Abs(PathJoin(distDir, r.path)) \notin DOMAIN files

(* C10: without DEPLOY_URL the script exits with status 1 before any       *)
(* stage: the output directory is as it was, nothing is fetched and        *)
(* nothing is published.                                                   *)
C10_MissingDeployUrlExits ==
    deployUrl = <<>> =>
        /\ pc \in { "validate", "exit" }
        /\ pc = "exit" => exitCode = 1
        /\ files = snap.files
        /\ dirs = snap.dirs
        /\ fetched = <<>>
        /\ published = {}

\* the script has exited for want of DEPLOY_URL, the files of an earlier
\* run still in the output directory
C10_Witness ==
    /\ pc = "exit"
    /\ deployUrl = <<>>
    /\ exitCode = 1
    /\ Abs(OldFile) \in DOMAIN files

\* the stage of the pipeline a statement of the script belongs to, by its
\* place in the script
StageOf(p) ==
    CASE p = "validate" -> 0
      [] p = "clean" -> 1
      [] p = "mirror" -> 2
      [] p \in { "err404", "rss", "sitemaps" } -> 3
      [] p \in { "scan", "download" } -> 4
      [] p = "sanitize" -> 5
      [] p = "fix404" -> 6
      [] p \in { "rewriteHtml", "rewriteXml", "urlRewrite", "cleanVersions",
                 "removePortal" } -> 7
      [] p = "sitemapFix" -> 8
      [] p = "prepare" -> 9
      [] p = "publish" -> 10
      [] p \in { "done", "exit", "crashed" } -> 11

\* the statements after the last pass of the content rewrite
AfterRewrite == { "sitemapFix", "prepare", "publish", "done" }

\* the domain-pin file
CnamePath == Abs(PathJoin(distDir, <<"CNAME">>))

(* C11: the stages run in their order: no step goes back to an earlier     *)
(* stage, nothing is fetched once the sanitation has begun, no file leaves *)
(* its path once the content rewrite is over, and the publish command is   *)
(* run only from the last stage, the publish metadata written.             *)
C11_StagesInOrder ==
    [][ /\ StageOf(pc') >= StageOf(pc)
        /\ StageOf(pc) >= 5 => fetched' = fetched
        /\ pc \in AfterRewrite => DOMAIN files \subseteq DOMAIN files'
        /\ published' # published
              => pc = "publish" /\ CnamePath \in DOMAIN files ]_vars

\* the commands the script runs at a call site that ignores their failure
SoftCommands == { "mirror", "err404", "rss", "publish" }

(* C12: every failure of a command at a call site that ignores errors is   *)
(* logged as a warning and does not stop the run: the script does not exit *)
(* on it, and a run that ends after such a failure has been through the    *)
(* publish stage and exits with status 0.                                  *)
C12_SoftFailuresLogged ==
    /\ softFailures \subseteq SoftCommands
    /\ softFailures \subseteq warnings
    /\ softFailures # {} => pc # "exit"
    /\ (softFailures # {} /\ pc = "done") => exitCode = 0 /\ published # {}

\* the source and the destination of the move of the structural fix
FourOhFourSrc == Abs(PathJoin(distDir, <<"404", "/", "index", ".html">>))

FourOhFourDest == Abs(PathJoin(distDir, <<"404", ".html">>))

(* C13: the structural fix leaves the output directory as it is when       *)
(* 404/index.html does not exist; when it exists, 404.html holds its       *)
(* contents afterwards, 404/index.html and the directory 404 are gone, and *)
(* no other file is lost or changed.                                       *)
C13_StructuralFix ==
    [][ pc = "fix404" =>
          IF FourOhFourSrc \notin DOMAIN files
          THEN files' = files /\ dirs' = dirs
          ELSE /\ FourOhFourDest \in DOMAIN files'
               /\ files'[FourOhFourDest] = files[FourOhFourSrc]
               /\ FourOhFourSrc \notin DOMAIN files'
               /\ Dirname(FourOhFourSrc) \notin dirs'
               /\ \A q \in (DOMAIN files) \ { FourOhFourSrc, FourOhFourDest } :
                     q \in DOMAIN files' /\ files'[q] = files[q] ]_vars

\* the bare domain of an origin: its host, without the scheme and without
\* a slash or a path
BareDomain(url) == BeforeFirst(StripScheme(url), { "/" })

\* the preprocessing-disable marker file
NojekyllPath == Abs(PathJoin(distDir, <<".nojekyll">>))

(* C14: when the publish command is run, CNAME in the root of the output   *)
(* directory holds exactly the bare domain of the destination origin, and  *)
(* .nojekyll is there and empty, for every destination origin, with a      *)
(* trailing slash or not.                                                  *)
C14_PublishMetadata ==
    pc = "publish" =>
        /\ CnamePath \in DOMAIN files
        /\ files[CnamePath] = BareDomain(deployUrl)
        /\ NojekyllPath \in DOMAIN files
        /\ files[NojekyllPath] = <<>>

(* C15: the directory handed to the publish command is the output         *)
(* directory the earlier stages worked on, whatever the working directory  *)
(* of the process.                                                         *)
C15_PublishedIsOutputDir ==
    \A d \in published : d = Abs(distDir)

\* the directories of the output directory and below
DistDirs == { q \in dirs : Under(q, Abs(distDir)) }

(* C16: whatever an earlier run left in the output directory, the reset    *)
(* leaves the directory there and empty, and from then on no file of the   *)
(* output directory is a file of the earlier run: every file there when    *)
(* the publish command is run was written by this run.                     *)
C16_ResetDiscardsPrevious ==
    /\ pc = "mirror" =>
          /\ DistFiles = {}
          /\ DistDirs = {}
          /\ Abs(distDir) \in dirs
    /\ StageOf(pc) \in 2..11 /\ pc # "exit" =>
          \A q \in DistFiles \cap DOMAIN previous : files[q] # previous[q]

\* the publish command is about to run on an output directory that held
\* files of an earlier run, one of them at a path this run wrote again
C16_Witness ==
    /\ pc = "publish"
    /\ DOMAIN previous # {}
    /\ \E q \in DOMAIN previous : Under(q, Abs(distDir)) /\ q \in DistFiles

\* the README's example of the removal list
elementsToRemove ==
    << ".gh-head-actions", "#ghost-portal-root", ".subscribe-overlay",
       "div.modal.is-active", "body > div > header > nav" >>

\* the elements of the modelled pages that a selector matches
Matching(selector) ==
    CASE selector = ".gh-head-actions"   -> { HeadActions }
      [] selector = ".subscribe-overlay" -> { SubscribeOverlay }
      [] OTHER                           -> {}

(* C17: when the publish command is run, no page holds an element that a   *)
(* selector of the removal list elementsToRemove matches.                  *)
C17_ElementsRemoved ==
    pc = "publish" =>
        \A q \in Glob(".html") :
            \A i \in 1..Len(elementsToRemove) :
                \A e \in Matching(elementsToRemove[i]) : ~Includes(files[q], <<e>>)

(* C18: in the build-only mode the publish command is never run.           *)
C18_BuildOnlySkipsPublish ==
    buildOnly => published = {}

\* the normalized paths of the references the audit found
FoundPaths == { StripHost(foundImages[i]) : i \in 1..Len(foundImages) }

\* the path was on disk when the audit started
WasPresent(path) ==
    ExistsIn(snap.files, snap.dirs, Abs(PathJoin(distDir, path)))

\* the positions of fetched that hold the fetches of the audit
AuditFetches == (SupplementaryFetches + 1)..Len(fetched)

ImagesDir == Abs(PathJoin(distDir, <<"content", "/", "images">>))

(* C20: the audit fetches only URLs made of the source origin and a path   *)
(* that begins with /content/images/, and every file it creates lies under *)
(* content/images in the output directory.                                 *)
C20_OnlyImagePaths ==
    pc = "download" =>
        /\ \A i \in AuditFetches :
              /\ Prefix(fetched[i], Len(ghostUrl)) = ghostUrl
              /\ StartsAt(fetched[i], Len(ghostUrl) + 1, ImagesPrefix)
        /\ \A q \in (DOMAIN files) \ (DOMAIN snap.files) : Under(q, ImagesDir)

(* C21: at the end of the sitemap loop each of the five names has been     *)
(* fetched once, in the order of the list, whatever the outcomes; the      *)
(* count of successes is the number of the sitemap files in the output     *)
(* directory, and none of them is empty.                                   *)
C21_SitemapLoop ==
    LET destPath(i) == Abs(PathJoin(distDir, sitemaps[i]))
        onDisk == { i \in 1..Len(sitemaps) : destPath(i) \in DOMAIN files }
    IN  (rev = 1 /\ pc = "scan") =>
            /\ Len(fetched) = 2 + Len(sitemaps)
            /\ \A i \in 1..Len(sitemaps) :
                  fetched[2 + i] = ghostUrl \o <<"/">> \o sitemaps[i]
            /\ sitemapCount = Cardinality(onDisk)
            /\ \A i \in onDisk : files[destPath(i)] # <<>>

\* the loop is over after successes, an empty answer and a failure
C21_Witness ==
    /\ rev = 1
    /\ pc = "scan"
    /\ \E i, j, k \in 1..Len(sitemaps) :
          /\ i < j
          /\ j < k
          /\ server.maps[i] = "empty"
          /\ server.maps[j] = "fail"
          /\ server.maps[k] = "ok"
    /\ sitemapCount = 3

\* contents c holds an extension of the list with a suffix, one that begins
\* with "?" or "@", right after it
HasCacheBuster(c) ==
    \E i \in 1..(Len(c) - 1) : c[i] \in AssetExts2 /\ c[i + 1] \in { "?", "@" }

(* C22: at the end of the content rewrite, the removal of the portal       *)
(* script included, no html file holds one of the extensions .css, .js,    *)
(* .png, .jpg, .jpeg, .gif, .svg, .webp with a suffix that begins with "?" *)
(* or "@" right after it.                                                  *)
C22_NoCacheBusters ==
    RewriteEnd => \A q \in Glob(".html") : ~HasCacheBuster(files[q])

\* the index of the first "></script>" of c at or after i; past the end of c
\* when there is none
ScriptEnd(c, i) == i + FirstIn(Suffix(c, i), { "></script>" }) - 1

\* the indexes of c at which a script tag begins that refers to ghost-portal
\* before it closes, on one line or on several
PortalTags(c) ==
    { i \in 1..Len(c) :
        /\ c[i] = "<script"
        /\ ScriptEnd(c, i) <= Len(c)
        /\ \E k \in (i + 1)..(ScriptEnd(c, i) - 1) : c[k] = "ghost-portal" }

(* C23: at the end of the content rewrite no html file holds a script tag  *)
(* that refers to ghost-portal, be the tag on one line or on several.      *)
C23_NoPortalScript ==
    RewriteEnd => \A q \in Glob(".html") : PortalTags(files[q]) = {}

\* c from index k on, without the script tags that begin at the indexes
\* in T
RECURSIVE RemoveTags(_, _, _)
RemoveTags(c, T, k) ==
    IF k > Len(c) THEN <<>>
    ELSE (IF \A i \in T : k < i \/ k > ScriptEnd(c, i) THEN <<c[k]>> ELSE <<>>)
         \o RemoveTags(c, T, k + 1)

\* the extensions of the cache-buster pattern of the revision that runs
AssetExts == IF rev = 1 THEN AssetExts1 ELSE AssetExts2

(* C30: the portal rule deletes script tags that refer to ghost-portal and *)
(* nothing else: what it leaves of a file (of its contents after the       *)
(* origin rule and the cache-buster rule) is the file without some of its  *)
(* portal script tags, every other script tag and all other markup, on the *)
(* line of a portal script tag too, as it was.                             *)
C30_OnlyPortalRemoved ==
    RewriteEnd =>
        \A q \in Glob(".html") \cap DOMAIN snap.files :
            LET c == StripCacheBusters(
                         RegexReplaceAll(snap.files[q], ghostUrl, deployUrl),
                         AssetExts)
            IN  \E T \in SUBSET PortalTags(c) : files[q] = RemoveTags(c, T, 1)

(* C24: at the end of the content rewrite every xml file of the output     *)
(* directory has no xml-stylesheet processing instruction, whatever the    *)
(* address of the stylesheet (one with a "?" too), and no protocol-        *)
(* relative reference to the source host (a reference to the destination   *)
(* host that begins with the name of the source host set aside).           *)
C24_XmlRewritten ==
    LET ghostRef  == <<"/", "/">> \o StripScheme(ghostUrl)
        deployRef == <<"/", "/">> \o StripScheme(deployUrl)
    IN  RewriteEnd =>
            \A q \in Glob(".xml") :
                /\ ~Includes(files[q], <<"<?xml-stylesheet">>)
                /\ ~Includes(deployRef, ghostRef) => ~Includes(files[q], ghostRef)

(* C25: the origin rule and the cache-buster rule commute: on the contents *)
(* of every html file the rewrite is about to be made on, and for the pair *)
(* of origins of the run, the origin rule and then the cache-buster rule   *)
(* give the text that the cache-buster rule and then the origin rule give. *)
C25_RulesCommute ==
    pc \in { "rewriteHtml", "urlRewrite" } =>
        \A q \in Glob(".html") :
            StripCacheBusters(RegexReplaceAll(files[q], ghostUrl, deployUrl), AssetExts)
                = RegexReplaceAll(StripCacheBusters(files[q], AssetExts),
                                  ghostUrl, deployUrl)

(* C26: the sanitation touches only files whose path relative to the       *)
(* output directory holds "?", "=" or "@": a file with a clean relative    *)
(* path is after the stage where it was, with the contents it had, and     *)
(* every file the stage has made is below the output directory, wherever   *)
(* that directory is (below a directory with "@" in its name too).         *)
C26_CleanFilesUntouched ==
    SanitizeEnd =>
        /\ \A q \in SnapDistFiles :
              ~IsDirty(Suffix(q, Len(Abs(distDir)) + 2))
                  => q \in DOMAIN files /\ files[q] = snap.files[q]
        /\ \A q \in (DOMAIN files) \ (DOMAIN snap.files) : Under(q, Abs(distDir))

(* C27: a fetch of the audit that fails leaves no file at the local path   *)
(* of the image: at the end of the audit every file at the path of a found *)
(* image was on disk before the audit or was written by a fetch that       *)
(* succeeded.                                                              *)
C27_FailedFetchNoFile ==
    AuditEnd =>
        \A path \in FoundPaths :
            Abs(PathJoin(distDir, path)) \in DOMAIN files
                => WasPresent(path) \/ path \in ServedImages

(* C28: the asset audit never ends the run: whatever the html files hold,  *)
(* a src or srcset value with a malformed percent-escape too, the script   *)
(* is, while and right after the audit, still running and has not failed.  *)
C28_AuditNeverAborts ==
    pc \in { "scan", "download", "crashed" } => pc # "crashed" /\ exitCode = -1

\* the values of the src and href attributes of s, in order
RECURSIVE Refs(_)
Refs(s) ==
    IF Len(s) < 4 THEN <<>>
    ELSE LET rest == Suffix(s, 3)
             q    == FirstIn(rest, Quotes)
         IN  IF /\ s[1] \in { "src=", "href=" }
                /\ s[2] \in Quotes
                /\ q >= 2
                /\ q <= Len(rest)
             THEN <<Prefix(rest, q - 1)>> \o Refs(Suffix(rest, q + 1))
             ELSE Refs(Tail(s))

\* the URL paths among the references of s that have an extension of the
\* list with a cache-busting suffix
BustedAssets(s) ==
    { u \in SeqToSet(Refs(s)) :
        /\ Head(u) = "/"
        /\ Len(u) >= 2 => u[2] # "/"
        /\ SeqToSet(u) \cap Whitespace = {}
        /\ HasCacheBuster(u) }

\* u with its file name cut at the first "?", "=" or "@": the file name
\* begins after the last "/" before the first extension that has a suffix
TruncatedName(u) ==
    LET at    == CHOOSE i \in 1..(Len(u) - 1) :
                     /\ HasCacheBuster(SubSeq(u, i, i + 1))
                     /\ ~HasCacheBuster(Prefix(u, i))
        sl    == { j \in 1..at : u[j] = "/" }
        start == 1 + CHOOSE j \in sl : \A k \in sl : k <= j
    IN  Prefix(u, start - 1) \o cleanPath(Suffix(u, start))

(* C29: sanitation and reference rewriting agree: for every URL path u of  *)
(* an html file that has an extension of the list with a cache-busting     *)
(* suffix, u with its file name cut at the first "?", "=" or "@" is the    *)
(* text the cache-buster rule makes of u, and at the end of the rewrite    *)
(* that text names a file of the output directory if the mirror had saved  *)
(* the asset (under the name of u with "?" written "@").                   *)
C29_NamesAgree ==
    RewriteEnd =>
        \A q \in Glob(".html") \cap DOMAIN snap.files :
            \A u \in BustedAssets(snap.files[q]) :
                LET mirrorName == [i \in 1..(Len(u) - 1) |->
                                     IF u[i + 1] = "?" THEN "@" ELSE u[i + 1]]
                    stripped   == StripCacheBusters(u, AssetExts)
                IN  /\ TruncatedName(u) = stripped
                    /\ mirrorName \in DOMAIN Site(siteName, ghostUrl)
                          => Abs(PathJoin(distDir, stripped)) \in DOMAIN files

===========================================================================
